---- MODULE Spec2Model ----
(***************************************************************************)
(* A model of DocumentationAnalyzer (src/analyzer.py): the extraction      *)
(* cascade of scrape_page with its error handler and its finally block,    *)
(* analyze_content, calculate_overall_score, and analyze_documentation,    *)
(* which runs them in sequence.                                            *)
(*                                                                         *)
(* Text is a sequence of one-character strings, so that len, str.strip,    *)
(* str.split('\n') and str.join are computed character by character.       *)
(* The browser and the language model are the environment: every value    *)
(* they return, and every exception they raise, is a choice made when the  *)
(* call is made.                                                           *)
(***************************************************************************)
EXTENDS Integers, Sequences, FiniteSets, TLC

VARIABLES
    pc,                  \* position of the run of analyze_documentation
    sessions,            \* number of browser sessions created (webdriver.Chrome)
    quits,               \* number of calls of driver.quit
    main_content_found,  \* scrape_page's local of that name
    content_parts,       \* scrape_page's local of that name: a list of texts
    selector,            \* index in main_selectors of the selector that matched, 0 if none
    yielded,             \* per extraction step, the length of the text it obtained
    content,             \* scrape_page's local of that name, after the clean-up
    document,            \* the text scrape_page returned
    path,                \* the return statement that produced document
    error,               \* the exception pending or raised, "none" if none
    trace,               \* the extraction steps and the model call, in execution order
    analysis,            \* the mapping analyze_content returned
    model_failed,        \* whether the analysis chain raised
    overall              \* the result of calculate_overall_score

vars == <<pc, sessions, quits, main_content_found, content_parts, selector,
          yielded, content, document, path, error, trace, analysis,
          model_failed, overall>>

(***************************************************************************)
(* Characters and the string operations of Python the code uses.           *)
(***************************************************************************)
NL == "\n"
SP == " "
CH == "x"
HASH == "#"

Rep(ch, n) == [i \in 1..n |-> ch]

IsSpace(ch) == ch \in {NL, SP}

SetMin(S) == CHOOSE x \in S : \A y \in S : x <= y
SetMax(S) == CHOOSE x \in S : \A y \in S : x >= y

\* str.strip(): the text without its leading and trailing whitespace
Strip(s) ==
    LET keep == {i \in 1..Len(s) : ~IsSpace(s[i])}
    IN  IF keep = {} THEN <<>> ELSE SubSeq(s, SetMin(keep), SetMax(keep))

\* str.split('\n'): the pieces between newlines, empty pieces included
RECURSIVE Split(_)
Split(s) ==
    LET nls == {i \in 1..Len(s) : s[i] = NL}
    IN  IF nls = {} THEN <<s>>
        ELSE LET i == SetMin(nls)
             IN  <<SubSeq(s, 1, i - 1)>> \o Split(SubSeq(s, i + 1, Len(s)))

\* sep.join(parts)
RECURSIVE Join(_, _)
Join(sep, parts) ==
    IF parts = <<>> THEN <<>>
    ELSE IF Len(parts) = 1 THEN parts[1]
    ELSE parts[1] \o sep \o Join(sep, Tail(parts))

\* line.strip() for each line
StripEach(lines) == [i \in 1..Len(lines) |-> Strip(lines[i])]

Last(seq) == seq[Len(seq)]

(***************************************************************************)
(* The thresholds and tables of scrape_page.                               *)
(***************************************************************************)
MinBlockLen == 10       \* len(text) > 10
ScriptMinLen == 100     \* len(content_text.strip()) > 100
FallbackMinLen == 50    \* len(all_text.strip()) > 50
MinLineLen == 3         \* len(line) > 3
MinContentLen == 100    \* len(content.strip()) > 100
MinPageSource == 1000   \* len(page_source) > 1000
AltMinLen == 100        \* len(text_content.strip()) > 100

main_selectors ==
    <<"main", ".main-content", "#main-content", ".article-content",
      ".content", ".post-content", ".entry-content", "[role='main']">>

HeadingTags == {"h1", "h2", "h3", "h4", "h5", "h6"}

\* int(tag[1]) of a heading tag
HeadingLevel(tag) ==
    CASE tag = "h1" -> 1 [] tag = "h2" -> 2 [] tag = "h3" -> 3
      [] tag = "h4" -> 4 [] tag = "h5" -> 5 [] tag = "h6" -> 6

Steps == {"strategy1", "strategy2", "strategy3", "alternative"}

(***************************************************************************)
(* What the browser can answer.  The texts stand on both sides of every    *)
(* threshold, carry surrounding whitespace, and carry short lines.         *)
(***************************************************************************)
MaxElements == 2        \* elements found inside the matched container
MaxShortLines == 2      \* short lines inside a multi-line text

ShortLines(n) == Join(<<NL>>, [i \in 1..n |-> Rep(CH, MinLineLen)])

PageTexts ==
    { <<>>,
      <<SP, NL, SP>>,
      Rep(CH, FallbackMinLen),
      Rep(CH, FallbackMinLen + 1),
      Rep(CH, ScriptMinLen),
      <<SP>> \o Rep(CH, ScriptMinLen + 1) \o <<NL>>,
      Rep(CH, ScriptMinLen - 2) \o <<NL>> \o ShortLines(MaxShortLines),
      Rep(CH, ScriptMinLen + 1) \o <<NL, SP>> \o ShortLines(MaxShortLines)
          \o <<SP, NL, NL, SP>> \o Rep(CH, MinLineLen + 1) \o <<SP>> }

PageSourceLens == {0, MinPageSource, MinPageSource + 1}

\* an element of the container: its tag, its text, and whether reading it raises
Elements ==
    { [tag |-> "h2", text |-> Rep(CH, MinBlockLen + 5), stale |-> FALSE],
      [tag |-> "p", text |-> <<SP>> \o Rep(CH, MinBlockLen) \o <<SP>>, stale |-> FALSE],
      [tag |-> "p", text |-> Rep(CH, MinBlockLen + 1), stale |-> FALSE],
      [tag |-> "div", text |-> Rep(CH, MinContentLen - MinBlockLen) \o <<NL>>
                                  \o ShortLines(MaxShortLines), stale |-> FALSE],
      [tag |-> "p", text |-> Rep(CH, MinContentLen + 1), stale |-> TRUE] }

ElementLists == UNION {[1..n -> Elements] : n \in 0..MaxElements}

(***************************************************************************)
(* The judgment: what the analysis chain can return, and the scores.       *)
(***************************************************************************)
categories == {"readability", "structure", "completeness", "style_guidelines"}

Ordinals == {"Poor", "Fair", "Good", "Excellent"}

\* the table with two weights exchanged
score_values_swapped == [Excellent |-> 4, Good |-> 2, Fair |-> 3, Poor |-> 1]

score_values == [Excellent |-> 4, Good |-> 3, Fair |-> 2, Poor |-> 1]

\* dict.get(key, default)
Get(d, key, default) == IF key \in DOMAIN d THEN d[key] ELSE default

\* one category of a result of the chain: complete, with a score that is no
\* Ordinal and an empty list, or with no score at all
CategoryResults ==
    { [score |-> o, issues |-> <<"an issue">>, suggestions |-> <<"a suggestion">>]
        : o \in Ordinals }
    \cup { [score |-> "Amazing", issues |-> <<"an issue">>, suggestions |-> <<>>],
           [issues |-> <<>>] }

\* the parsed JSON the chain returns: any of the four keys may be missing
ModelResults == UNION {[D -> CategoryResults] : D \in SUBSET categories}

\* the default with one category left out of the list
DefaultAnalysisShort ==
    [cat \in categories \ {"style_guidelines"} |->
        [score |-> "Fair",
         issues |-> <<"Analysis failed to generate proper response">>,
         suggestions |-> <<"Please try again">>]]

\* the structure analyze_content returns when the chain raised
DefaultAnalysis ==
    [cat \in categories |->
        [score |-> "Fair",
         issues |-> <<"Analysis failed to generate proper response">>,
         suggestions |-> <<"Please try again">>]]

RECURSIVE Sum(_, _)
Sum(f, S) ==
    IF S = {} THEN 0
    ELSE LET x == CHOOSE y \in S : TRUE IN f[x] + Sum(f, S \ {x})

\* avg >= half / 2, for avg = total / count; the halves 7, 5 and 3 are the
\* thresholds 3.5, 2.5 and 1.5
AvgAtLeast(total, count, half) == 2 * total >= half * count

OverallWith(values, a) ==
    LET scored == {cat \in DOMAIN a : Get(a[cat], "score", "Fair") \in DOMAIN values}
        scores == [cat \in scored |-> values[Get(a[cat], "score", "Fair")]]
        total == Sum(scores, scored)
        count == Cardinality(scored)
    IN  IF scored = {} THEN "Unknown"
        ELSE IF AvgAtLeast(total, count, 7) THEN "Excellent"
        ELSE IF AvgAtLeast(total, count, 5) THEN "Good"
        ELSE IF AvgAtLeast(total, count, 3) THEN "Fair"
        ELSE "Poor"

\* the aggregate with > in place of >= at every threshold
OverallStrict(a) ==
    LET scored == {cat \in DOMAIN a : Get(a[cat], "score", "Fair") \in DOMAIN score_values}
        scores == [cat \in scored |-> score_values[Get(a[cat], "score", "Fair")]]
        total == Sum(scores, scored)
        count == Cardinality(scored)
    IN  IF scored = {} THEN "Unknown"
        ELSE IF 2 * total > 7 * count THEN "Excellent"
        ELSE IF 2 * total > 5 * count THEN "Good"
        ELSE IF 2 * total > 3 * count THEN "Fair"
        ELSE "Poor"

\* the aggregate with a neutral Ordinal where the code answers "Unknown"
OverallNeutral(a) ==
    IF OverallWith(score_values, a) = "Unknown" THEN "Fair"
    ELSE OverallWith(score_values, a)

calculate_overall_score(a) == OverallWith(score_values, a)

(***************************************************************************)
(* scrape_page.                                                            *)
(***************************************************************************)
NoYield == [s \in Steps |-> 0]

\* the block appended for one element: a heading is marked with its level
Block(e) ==
    IF e.tag \in HeadingTags
    THEN <<NL>> \o Rep(HASH, HeadingLevel(e.tag)) \o <<SP>> \o Strip(e.text) \o <<NL>>
    ELSE Strip(e.text)

\* the test on one element: reading it did not raise and its text is long enough
Kept(e) == ~e.stale /\ Strip(e.text) # <<>> /\ Len(Strip(e.text)) > MinBlockLen

\* the loop over the elements of the matched container
Collect(elements) ==
    LET kept == SelectSeq(elements, Kept)
    IN  [i \in 1..Len(kept) |-> Block(kept[i])]

\* the clean-up that strips the lines and drops none
CleanLinesKeepAll(text) == Join(<<NL>>, StripEach(Split(text)))

\* the clean-up that tests the length of a line before stripping it
CleanLinesRawTest(text) ==
    LET Long(line) == Strip(line) # <<>> /\ Len(line) > MinLineLen
    IN  Join(<<NL>>, StripEach(SelectSeq(Split(text), Long)))

\* the clean-up of the joined content: split, strip, drop short lines, rejoin
CleanLines(text) ==
    LET lines == Split(text)
        stripped == StripEach(lines)
        Long(line) == line # <<>> /\ Len(line) > MinLineLen
    IN  Join(<<NL>>, SelectSeq(stripped, Long))

\* Strategy 2 tested on the content parts, as Strategy 3 is
AfterStrategy1OnParts(found, parts) ==
    IF parts = <<>> THEN "strategy3" ELSE "combine"

\* what is left to run after a strategy, given what the code tests before each
AfterStrategy1(found, parts) ==
    IF ~found THEN "strategy2"
    ELSE IF parts = <<>> THEN "strategy3" ELSE "combine"

\* Strategy 2 run again when it left no content parts
AfterStrategy2Again(parts) == IF parts = <<>> THEN "strategy2" ELSE "combine"

AfterStrategy2(parts) == IF parts = <<>> THEN "strategy3" ELSE "combine"

Init ==
    /\ pc = "start"
    /\ sessions = 0
    /\ quits = 0
    /\ main_content_found = FALSE
    /\ content_parts = <<>>
    /\ selector = 0
    /\ yielded = NoYield
    /\ content = <<>>
    /\ document = <<>>
    /\ path = "none"
    /\ error = "none"
    /\ trace = <<>>
    /\ analysis = <<>>
    /\ model_failed = FALSE
    /\ overall = "none"

\* analyze_documentation calls scrape_page, which creates the browser session
Start ==
    /\ pc = "start"
    /\ \/ /\ sessions' = sessions + 1
          /\ pc' = "navigate"
          /\ error' = error
       \/ /\ sessions' = sessions
          /\ pc' = "failed"
          /\ error' = "WebDriverException"
    /\ UNCHANGED <<quits, main_content_found, content_parts, selector, yielded,
                   content, document, path, trace, analysis, model_failed, overall>>

\* driver.get, the script that hides the automation flag, and the wait
Navigate ==
    /\ pc = "navigate"
    /\ \/ /\ pc' = "strategy1"
          /\ error' = error
       \/ /\ pc' = "except"
          /\ error' = "WebDriverException"
    /\ UNCHANGED <<sessions, quits, main_content_found, content_parts, selector,
                   yielded, content, document, path, trace, analysis, model_failed,
                   overall>>

\* Strategy 1: the first selector that finds a container with text, if any
Strategy1 ==
    /\ pc = "strategy1"
    /\ \E sel \in 0..Len(main_selectors), elements \in ElementLists :
         LET found == sel # 0
             parts == IF found THEN Collect(elements) ELSE <<>>
         IN  /\ (~found => elements = <<>>)
             /\ selector' = sel
             /\ main_content_found' = found
             /\ content_parts' = parts
             /\ yielded' = [yielded EXCEPT !["strategy1"] = Len(Join(<<NL, NL>>, parts))]
             /\ pc' = AfterStrategy1(found, parts)
    /\ trace' = Append(trace, "strategy1")
    /\ UNCHANGED <<sessions, quits, content, document, path, error, analysis,
                   model_failed, overall>>

\* Strategy 2: the script over the whole document, then the text of body
Strategy2 ==
    /\ pc = "strategy2"
    /\ \/ \E content_text \in PageTexts, body_text \in PageTexts :
            LET viaScript == content_text # <<>> /\ Len(Strip(content_text)) > ScriptMinLen
                parts == IF viaScript THEN <<Strip(content_text)>>
                         ELSE IF body_text # <<>> THEN <<Strip(body_text)>>
                         ELSE content_parts
                seen == SetMax({Len(Strip(content_text)), Len(Strip(body_text))})
            IN  /\ (viaScript => body_text = <<>>)
                /\ content_parts' = parts
                /\ yielded' = [yielded EXCEPT !["strategy2"] = seen]
                /\ pc' = AfterStrategy2(parts)
       \/ /\ content_parts' = content_parts     \* a browser call raised
          /\ yielded' = yielded
          /\ pc' = AfterStrategy2(content_parts)
    /\ trace' = Append(trace, "strategy2")
    /\ UNCHANGED <<sessions, quits, main_content_found, selector, content, document,
                   path, error, analysis, model_failed, overall>>

\* Strategy 3: the text of body, taken by script
Strategy3 ==
    /\ pc = "strategy3"
    /\ \/ \E all_text \in PageTexts :
            /\ content_parts' =
                 IF all_text # <<>> /\ Len(Strip(all_text)) > FallbackMinLen
                 THEN <<Strip(all_text)>> ELSE content_parts
            /\ yielded' = [yielded EXCEPT !["strategy3"] = Len(Strip(all_text))]
       \/ /\ content_parts' = content_parts     \* the script raised
          /\ yielded' = yielded
    /\ pc' = "combine"
    /\ trace' = Append(trace, "strategy3")
    /\ UNCHANGED <<sessions, quits, main_content_found, selector, content, document,
                   path, error, analysis, model_failed, overall>>

\* Combine all content: join, clean, return it if it is long enough, else raise
CombineWith(minimum) ==
    /\ pc = "combine"
    /\ LET cleaned == IF content_parts # <<>>
                      THEN CleanLines(Join(<<NL, NL>>, content_parts))
                      ELSE content
       IN  /\ content' = cleaned
           /\ IF content_parts # <<>> /\ Len(Strip(cleaned)) > minimum
              THEN /\ document' = cleaned
                   /\ path' = "cascade"
                   /\ error' = error
                   /\ pc' = "finally"
              ELSE /\ document' = document
                   /\ path' = path
                   /\ error' = "No substantial content found on the page"
                   /\ pc' = "except"
    /\ UNCHANGED <<sessions, quits, main_content_found, content_parts, selector,
                   yielded, trace, analysis, model_failed, overall>>

\* the viability check with the threshold of Strategy 3
CombineLow == CombineWith(FallbackMinLen)

Combine == CombineWith(MinContentLen)

\* except Exception: the alternative method over the text nodes of the page
Alternative ==
    /\ pc = "except"
    /\ \/ \E page_source \in PageSourceLens, text_content \in PageTexts :
            LET ran == page_source > MinPageSource
                ok == ran /\ text_content # <<>> /\ Len(Strip(text_content)) > AltMinLen
            IN  /\ (~ran => text_content = <<>>)
                /\ yielded' = [yielded EXCEPT !["alternative"] = Len(Strip(text_content))]
                /\ document' = IF ok THEN Strip(text_content) ELSE document
                /\ path' = IF ok THEN "alternative" ELSE path
                /\ error' = IF ok THEN "none" ELSE "All scraping methods failed"
       \/ /\ yielded' = yielded                 \* a browser call raised
          /\ document' = document
          /\ path' = path
          /\ error' = "All scraping methods failed"
    /\ pc' = "finally"
    /\ trace' = Append(trace, "alternative")
    /\ UNCHANGED <<sessions, quits, main_content_found, content_parts, selector,
                   content, analysis, model_failed, overall>>

\* the pending exception lost in the finally block
FinallySwallow ==
    /\ pc = "finally"
    /\ quits' = quits + 1
    /\ pc' = "scraped"
    /\ UNCHANGED <<sessions, main_content_found, content_parts, selector, yielded,
                   content, document, path, error, trace, analysis, model_failed,
                   overall>>

\* the session released on the success path only
FinallyOnSuccess ==
    /\ pc = "finally"
    /\ quits' = IF error = "none" THEN quits + 1 ELSE quits
    /\ pc' = IF error = "none" THEN "scraped" ELSE "failed"
    /\ UNCHANGED <<sessions, main_content_found, content_parts, selector, yielded,
                   content, document, path, error, trace, analysis, model_failed,
                   overall>>

\* finally: driver.quit(), whatever it raises being swallowed
Finally ==
    /\ pc = "finally"
    /\ quits' = quits + 1
    /\ pc' = IF error = "none" THEN "scraped" ELSE "failed"
    /\ UNCHANGED <<sessions, main_content_found, content_parts, selector, yielded,
                   content, document, path, error, trace, analysis, model_failed,
                   overall>>

\* analyze_content: the chain's result as it is, or the default if it raised
AnalyzeContent ==
    /\ pc = "scraped"
    /\ \/ \E result \in ModelResults :
            /\ analysis' = result
            /\ model_failed' = FALSE
       \/ /\ analysis' = DefaultAnalysis
          /\ model_failed' = TRUE
    /\ pc' = "analyzed"
    /\ trace' = Append(trace, "model")
    \* the locals of scrape_page are gone, the content went into the prompt
    /\ main_content_found' = FALSE
    /\ content_parts' = <<>>
    /\ selector' = 0
    /\ yielded' = NoYield
    /\ content' = <<>>
    /\ document' = <<>>
    /\ UNCHANGED <<sessions, quits, path, error, overall>>

\* print_results and save_results: the overall score of the analysis
CalculateOverallScore ==
    /\ pc = "analyzed"
    /\ overall' = calculate_overall_score(analysis)
    /\ pc' = "done"
    /\ UNCHANGED <<sessions, quits, main_content_found, content_parts, selector,
                   yielded, content, document, path, error, trace, analysis,
                   model_failed>>

Next ==
    \/ Start
    \/ Navigate
    \/ Strategy1
    \/ Strategy2
    \/ Strategy3
    \/ Combine
    \/ Alternative
    \/ Finally
    \/ AnalyzeContent
    \/ CalculateOverallScore

Spec == Init /\ [][Next]_vars

(***************************************************************************)
(* The clean-up of scrape_page on its own: every short text over a         *)
(* non-blank character, the space and the newline goes through it twice.   *)
(***************************************************************************)
MaxTextLen == 9         \* length of the texts the clean-up is tried on

Texts == UNION {[1..n -> {CH, SP, NL}] : n \in 0..MaxTextLen}

InitClean ==
    /\ pc = "clean"
    /\ content \in Texts
    /\ sessions = 0
    /\ quits = 0
    /\ main_content_found = FALSE
    /\ content_parts = <<>>
    /\ selector = 0
    /\ yielded = NoYield
    /\ document = <<>>
    /\ path = "none"
    /\ error = "none"
    /\ trace = <<>>
    /\ analysis = <<>>
    /\ model_failed = FALSE
    /\ overall = "none"

\* the clean-up applied to the text
CleanOnce ==
    /\ pc = "clean"
    /\ content' = CleanLines(content)
    /\ pc' = "cleaned"
    /\ UNCHANGED <<sessions, quits, main_content_found, content_parts, selector,
                   yielded, document, path, error, trace, analysis, model_failed,
                   overall>>

\* the clean-up applied to its own output
CleanAgain ==
    /\ pc = "cleaned"
    /\ document' = CleanLines(content)
    /\ pc' = "recleaned"
    /\ UNCHANGED <<sessions, quits, main_content_found, content_parts, selector,
                   yielded, content, path, error, trace, analysis, model_failed,
                   overall>>

NextClean ==
    \/ CleanOnce
    \/ CleanAgain

SpecClean == InitClean /\ [][NextClean]_vars

(***************************************************************************)
(* The properties.                                                         *)
(***************************************************************************)
Returned == pc \in {"scraped", "analyzed", "done"}
Raised == pc = "failed"

\* a judgment in the shape of DocumentationAnalysis (src/models.py)
HasList(d, key) == key \in DOMAIN d /\ d[key] # <<>>

IsValidJudgment(a) ==
    /\ DOMAIN a = categories
    /\ \A cat \in categories :
         /\ "score" \in DOMAIN a[cat]
         /\ a[cat].score \in Ordinals
         /\ HasList(a[cat], "issues")
         /\ HasList(a[cat], "suggestions")

\* the four categories each carry an Ordinal
IsScored(a) ==
    /\ DOMAIN a = categories
    /\ \A cat \in categories : "score" \in DOMAIN a[cat] /\ a[cat].score \in Ordinals

\* Poor < Fair < Good < Excellent, with the weights 1 to 4
Rank(o) == CASE o = "Poor" -> 1 [] o = "Fair" -> 2 [] o = "Good" -> 3 [] o = "Excellent" -> 4

WeightSum(a) == Sum([cat \in categories |-> Rank(a[cat].score)], categories)

HowMany(a, o) == Cardinality({cat \in categories : a[cat].score = o})

\* C1: once the browser session exists, driver.quit has been called exactly
\* once when scrape_page has returned or raised, on every exit path, and never
\* more than once before that; without a session it is never called.
C1_ReleasedOnce ==
    /\ quits <= sessions
    /\ sessions <= 1
    /\ (Returned \/ Raised) => quits = sessions

\* C1 witness: the viability check failed after the last strategy ran, the
\* error handler failed too, and the session was released.
C1_Witness ==
    /\ Raised
    /\ sessions = 1
    /\ quits = 1
    /\ trace = <<"strategy1", "strategy2", "strategy3", "alternative">>

\* C2: whatever the chain returned, the judgment analyze_content hands on has
\* exactly the four keys, each with an Ordinal score and non-empty issues and
\* suggestions.
C2_AlwaysValidJudgment ==
    pc \in {"analyzed", "done"} => IsValidJudgment(analysis)

\* C3 (as amended): when the chain raises, analyze_content does not raise and
\* returns the four categories, each with score Fair and one placeholder issue
\* and suggestion.
C3_DefaultIsFair ==
    (pc \in {"analyzed", "done"} /\ model_failed) =>
        /\ error = "none"
        /\ IsValidJudgment(analysis)
        /\ \A cat \in categories : analysis[cat].score = "Fair"

\* C3 witness: the chain raised and analyze_content returned.
C3_Witness == pc = "analyzed" /\ model_failed /\ DOMAIN analysis = categories

\* C3 as stated: the default judgment has score Poor in every category.
C3_DefaultIsPoor ==
    (pc \in {"analyzed", "done"} /\ model_failed) =>
        /\ error = "none"
        /\ IsValidJudgment(analysis)
        /\ \A cat \in categories : analysis[cat].score = "Poor"

\* C4: for four categories each with an Ordinal, the overall score is
\* Excellent when the weight sum is >= 14, Good when it is 10..13, Fair when
\* it is 6..9, Poor below; so {E, E, G, G} gives Excellent, {G, G, F, F} Good,
\* {F, F, P, P} Fair and all-Poor Poor.
C4_Buckets ==
    (pc = "done" /\ IsScored(analysis)) =>
        /\ overall = (IF WeightSum(analysis) >= 14 THEN "Excellent"
                      ELSE IF WeightSum(analysis) >= 10 THEN "Good"
                      ELSE IF WeightSum(analysis) >= 6 THEN "Fair"
                      ELSE "Poor")
        /\ (HowMany(analysis, "Excellent") = 2 /\ HowMany(analysis, "Good") = 2)
              => overall = "Excellent"
        /\ (HowMany(analysis, "Good") = 2 /\ HowMany(analysis, "Fair") = 2)
              => overall = "Good"
        /\ (HowMany(analysis, "Fair") = 2 /\ HowMany(analysis, "Poor") = 2)
              => overall = "Fair"
        /\ HowMany(analysis, "Poor") = 4 => overall = "Poor"

\* C4 witness: a judgment on the boundary of a bucket, two Good and two Fair.
C4_Witness ==
    /\ pc = "done"
    /\ IsScored(analysis)
    /\ HowMany(analysis, "Good") = 2
    /\ HowMany(analysis, "Fair") = 2
    /\ overall = "Good"

\* no category contributes a score: every category present carries a score
\* that is no Ordinal (a category with no score at all is read as Fair)
NoneContributes(a) ==
    \A cat \in DOMAIN a : "score" \in DOMAIN a[cat] /\ a[cat].score \notin Ordinals

\* no category has a score among the Ordinals
NoOrdinalScore(a) ==
    \A cat \in DOMAIN a : "score" \notin DOMAIN a[cat] \/ a[cat].score \notin Ordinals

\* C5 (as amended): when the judgment is empty or every category carries a
\* score outside the Ordinals, the overall score is "Unknown", which is no
\* Ordinal; the result is always an Ordinal or "Unknown".
C5_UnknownWhenNoScores ==
    pc = "done" =>
        /\ overall \in Ordinals \cup {"Unknown"}
        /\ NoneContributes(analysis) => overall = "Unknown"

\* C5 witness: categories are present, none with an Ordinal, and the overall
\* score was computed.
C5_Witness ==
    /\ pc = "done"
    /\ DOMAIN analysis = categories
    /\ NoneContributes(analysis)
    /\ overall = "Unknown"

\* C5 as stated: with no category contributing the result is Fair, so the
\* result is always an Ordinal.
C5_FairWhenNoScores ==
    pc = "done" =>
        /\ overall \in Ordinals
        /\ NoOrdinalScore(analysis) => overall = "Fair"

\* C6: for four categories each with an Ordinal, replacing the Ordinal of one
\* category by a strictly higher one never gives a lower overall Ordinal.
C6_Monotonic ==
    (pc = "done" /\ IsScored(analysis)) =>
        \A cat \in categories : \A higher \in Ordinals :
            Rank(higher) > Rank(analysis[cat].score) =>
                Rank(calculate_overall_score(
                         [analysis EXCEPT ![cat].score = higher])) >= Rank(overall)

\* C6 witness: a judgment in which raising one category raises the overall score.
C6_Witness ==
    /\ pc = "done"
    /\ IsScored(analysis)
    /\ overall = "Good"
    /\ \E cat \in categories :
         /\ analysis[cat].score = "Fair"
         /\ calculate_overall_score([analysis EXCEPT ![cat].score = "Excellent"])
              = "Excellent"

Cascade == {"strategy1", "strategy2", "strategy3"}

Ran(step) == \E i \in 1..Len(trace) : trace[i] = step

\* scrape_page has ended after running its cascade, its locals still in view
ScrapeEnded == pc \in {"scraped", "failed"} /\ Ran("strategy1")

\* C7 (as amended): if each of the three strategies and the alternative
\* method of the error handler obtain under 100 characters, scrape_page raises
\* and returns no document.
C7_FailsWhenAllShort ==
    (ScrapeEnded /\ \A step \in Steps : yielded[step] < MinContentLen) =>
        /\ Raised
        /\ error = "All scraping methods failed"
        /\ path = "none"
        /\ document = <<>>

\* C7 witness: Strategy 2, Strategy 3 and the alternative method each obtained
\* some text, all of it under 100 characters, and scrape_page raised.
C7_Witness ==
    /\ Raised
    /\ trace = <<"strategy1", "strategy2", "strategy3", "alternative">>
    /\ yielded["strategy2"] > 0
    /\ yielded["strategy3"] > FallbackMinLen
    /\ yielded["alternative"] > 0
    /\ \A step \in Steps : yielded[step] < MinContentLen

\* C7 as stated: if each of the three strategies obtains under 100 characters,
\* scrape_page raises and returns no document.
C7_FailsWhenStrategiesShort ==
    (ScrapeEnded /\ \A step \in Cascade : yielded[step] < MinContentLen) =>
        /\ Raised
        /\ document = <<>>

\* every line of the text is longer than 3 characters once trimmed
LinesLong(text) ==
    \A i \in 1..Len(Split(text)) : Len(Strip(Split(text)[i])) > MinLineLen

\* C8 (as amended): every document scrape_page returns from the cascade, after
\* the clean-up, consists only of lines longer than 3 characters once trimmed;
\* the document of the alternative method is stripped as a whole only.
C8_CascadeLinesLong ==
    (pc = "scraped" /\ path = "cascade") => LinesLong(document)

\* C8 witness: a document of several lines returned from the cascade, from
\* which the clean-up removed something.
C8_Witness ==
    /\ pc = "scraped"
    /\ path = "cascade"
    /\ Len(Split(document)) > 1
    /\ Len(document) < Len(Join(<<NL, NL>>, content_parts))

\* C8 as stated: every document scrape_page returns, whichever path produced
\* it, consists only of lines longer than 3 characters once trimmed.
C8_AllLinesLong == pc = "scraped" => LinesLong(document)

\* C9: the clean-up applied to its own output returns that output unchanged.
C9_Idempotent == pc = "recleaned" => document = content

\* C9 witness: the clean-up ran twice on a text of which it kept two lines.
C9_Witness ==
    /\ pc = "recleaned"
    /\ Len(Split(content)) = 2
    /\ LinesLong(content)

Previous == IF trace = <<>> THEN "none" ELSE Last(trace)

\* C10 (as amended): the strategies run in the order 1, 2, 3. When no selector
\* matched, Strategy 2 is the next step; when a selector matched and no element
\* was kept, Strategy 2 is skipped and Strategy 3 is the next step. Strategy 3
\* runs only with no content parts: after Strategy 2 left none, or right after
\* such an empty match.
C10_Handover ==
    [][Len(trace') > Len(trace) =>
        /\ (Previous = "strategy1" /\ ~main_content_found)
              => Last(trace') = "strategy2"
        /\ (Previous = "strategy1" /\ main_content_found /\ content_parts = <<>>)
              => Last(trace') = "strategy3"
        /\ Last(trace') = "strategy2"
              => (Previous = "strategy1" /\ ~main_content_found)
        /\ Last(trace') = "strategy3"
              => /\ content_parts = <<>>
                 /\ \/ Previous = "strategy2"
                    \/ Previous = "strategy1" /\ main_content_found]_vars

\* C10 witness: a selector matched, no element was kept, and Strategy 3 ran
\* right after Strategy 1.
C10_Witness ==
    /\ trace = <<"strategy1", "strategy3">>
    /\ main_content_found
    /\ selector > 0

\* C10 as stated: whenever Strategy 1 leaves no content blocks Strategy 2 is
\* the next step, and Strategy 3 runs only after Strategy 2 left nothing.
C10_StrictHandover ==
    [][Len(trace') > Len(trace) =>
        /\ (Previous = "strategy1" /\ content_parts = <<>>)
              => Last(trace') = "strategy2"
        /\ Last(trace') = "strategy2" => Previous = "strategy1"
        /\ Last(trace') = "strategy3"
              => (Previous = "strategy2" /\ content_parts = <<>>)]_vars

Extended == Len(trace') > Len(trace)

\* C11 (as amended): within one run of scrape_page each of the three
\* strategies is attempted at most once and none is attempted once an error is
\* pending; after the cascade has failed or a browser call has raised, the
\* error handler makes one further extraction attempt, the alternative method,
\* and after it none.
C11_OneMoreAttempt ==
    [][(Extended /\ Last(trace') \in Steps) =>
        /\ ~Ran(Last(trace'))
        /\ ~Ran("alternative")
        /\ (error # "none") <=> (Last(trace') = "alternative")]_vars

\* C11 witness: the cascade ran through its three strategies and failed, and
\* the alternative method then returned the document.
C11_Witness ==
    /\ pc = "scraped"
    /\ path = "alternative"
    /\ trace = <<"strategy1", "strategy2", "strategy3", "alternative">>
    /\ yielded["alternative"] > AltMinLen

\* C11 as stated: each strategy is attempted at most once, and once the
\* cascade has failed or an error has occurred no extraction step is executed.
C11_NoFurtherAttempt ==
    [][(Extended /\ Last(trace') \in Steps) =>
        /\ ~Ran(Last(trace'))
        /\ error = "none"]_vars

\* C12: the model is invoked only from the point where scrape_page has
\* returned a document and the session has been released; a run whose
\* extraction failed has ended with the error, takes no further step, has not
\* invoked the model and holds no judgment.
C12_ModelAfterScrape ==
    [][/\ (Extended /\ Last(trace') = "model") =>
            /\ pc = "scraped"
            /\ error = "none"
            /\ path # "none"
            /\ Len(document) > MinContentLen
            /\ sessions = 1
            /\ quits = 1
       /\ pc # "failed"
       /\ pc' = "failed" =>
            /\ error' # "none"
            /\ ~Ran("model")
            /\ trace' = trace
            /\ DOMAIN analysis' = {}
            /\ overall' = "none"]_vars

\* C12 witness: the model was invoked on a document of the cascade, after the
\* session was released, and returned a result.
C12_Witness ==
    /\ pc = "analyzed"
    /\ ~model_failed
    /\ path = "cascade"
    /\ Last(trace) = "model"
    /\ quits = 1

====
